---- MODULE Spec2Model ----
(***************************************************************************)
(* A model of src/app/sw_grab.py: Service.main connects to one switch,     *)
(* sends six show commands in a fixed order, classifies each output into   *)
(* self.data, checks that every field was received, prints the report and  *)
(* appends the record to a file.  The switch (netmiko's ConnectHandler) is  *)
(* the environment: what it returns or raises is chosen nondeterministically.*)
(***************************************************************************)
EXTENDS Naturals, Sequences, FiniteSets

VARIABLES
    pc,         \* position of the run inside Service.main
    session,    \* self.session
    data,       \* self.data
    idx,        \* 1-based index of the next command of the for loop of main
    connects,   \* outcomes of the calls of __connection, oldest first
    sent,       \* commands handed to send_command_timing, with what came back
    opened,     \* sessions the switch has accepted (ConnectHandler returned)
    closed,     \* sessions that were disconnected
    checks,     \* results returned by __check_data, oldest first
    rendered,   \* records printed by __output_to_console, oldest first
    persisted,  \* records appended to the output file by __write_file
    log,        \* messages given to self.add_log, oldest first
    argv,       \* the command line the process was started with
    connect_opt \* self.connect_opt

vars == <<pc, session, data, idx, connects, sent, opened, closed, checks,
          rendered, persisted, log, argv, connect_opt>>

----------------------------------------------------------------------------
(* Python values: None, a str (a sequence of one-character strings) and a  *)
(* dict (a record).                                                        *)

None == [t |-> "None"]

Str(s) == [t |-> "str", s |-> s]

Dict(d) == [t |-> "dict", d |-> d]

\* the object ConnectHandler(**options) returns
Handler == [t |-> "ConnectHandler"]

\* bool(v) of a value that is None or a str
Truthy(v) == v.t = "str" /\ Len(v.s) > 0

\* models.py: SwVersion().dict()
SwVersion == Dict([soft_version |-> None, hard_version |-> None])

\* models.py: SwConf().dict()
SwConf == Dict([start_config |-> None, running_config |-> None])

\* models.py: AllData().dict()
AllData ==
    [sw_version |-> SwVersion,
     sw_config |-> SwConf,
     sw_acl |-> None,
     sw_interface |-> None,
     sw_ip_interface |-> None]

----------------------------------------------------------------------------
(* Regular expressions of __get_version, on sequences of characters.       *)

\* the characters \w matches among those the model's texts are made of
WordChars ==
    {"a", "b", "c", "d", "e", "f", "g", "h", "i", "j", "k", "l", "m", "n",
     "o", "p", "q", "r", "s", "t", "u", "v", "w", "x", "y", "z",
     "A", "B", "C", "D", "E", "F", "G", "H", "I", "J", "K", "L", "M", "N",
     "O", "P", "Q", "R", "S", "T", "U", "V", "W", "X", "Y", "Z",
     "0", "1", "2", "3", "4", "5", "6", "7", "8", "9", "_"}

\* whether position p of s holds a word character (positions outside s do not)
WordAt(s, p) == p >= 1 /\ p <= Len(s) /\ s[p] \in WordChars

\* \b between positions p and p + 1 of s
Boundary(s, p) == WordAt(s, p) # WordAt(s, p + 1)

\* the literal lit stands in s from position p on
Literal(s, p, lit) ==
    /\ p + Len(lit) - 1 <= Len(s)
    /\ \A k \in 1..Len(lit) : s[p + k - 1] = lit[k]

Cisco == <<"C", "i", "s", "c", "o">>

fc2 == <<"f", "c", "2">>

memory == <<"m", "e", "m", "o", "r", "y">>

\* r"Cisco\b.*\b<suffix>." matched from position i of s: the positions its last
\* character (the final .) may take; . matches any character but "\n"
MatchEnds(s, i, suffix) ==
    IF ~(Literal(s, i, Cisco) /\ Boundary(s, i + Len(Cisco) - 1)) THEN {}
    ELSE { j + Len(suffix) :
             j \in { j \in (i + Len(Cisco))..Len(s) :
                       /\ Literal(s, j, suffix)
                       /\ Boundary(s, j - 1)
                       /\ \A k \in (i + Len(Cisco))..(j - 1) : s[k] # "\n"
                       /\ j + Len(suffix) <= Len(s)
                       /\ s[j + Len(suffix)] # "\n" } }

\* .* is greedy: the match that starts at i ends as far right as it can
MatchEnd(s, i, suffix) ==
    CHOOSE e \in MatchEnds(s, i, suffix) : \A f \in MatchEnds(s, i, suffix) : f <= e

\* re.findall(r"Cisco\b.*\b<suffix>.", s): the matches from position pos on, left
\* to right, each search resuming behind the match before it
RECURSIVE findall(_, _, _)
findall(s, pos, suffix) ==
    IF pos > Len(s) THEN <<>>
    ELSE IF MatchEnds(s, pos, suffix) # {}
         THEN <<SubSeq(s, pos, MatchEnd(s, pos, suffix))>>
                  \o findall(s, MatchEnd(s, pos, suffix) + 1, suffix)
         ELSE findall(s, pos + 1, suffix)

\* __get_version with each version taken on its own, whatever the other search
\* found
get_version_Independent(text) ==
    LET soft_version == findall(text, 1, fc2)
        hard_version == findall(text, 1, memory)
    IN  <<IF soft_version # <<>> THEN Str(soft_version[1]) ELSE None,
          IF hard_version # <<>> THEN Str(hard_version[1]) ELSE None>>

\* Service.__get_version: the pair (soft_version, hard_version)
get_version(text) ==
    LET soft_version == findall(text, 1, fc2)
        hard_version == findall(text, 1, memory)
    IN  IF soft_version # <<>> /\ hard_version # <<>>
        THEN <<Str(soft_version[1]), Str(hard_version[1])>>
        ELSE <<None, None>>

----------------------------------------------------------------------------
(* Classification and the completeness check.                              *)

\* Service.main: commands
commands ==
    <<"show version", "show startup-config", "show running-config",
      "show access-lists", "show ip interface brief", "show interfaces">>

\* __distributor with show ip interface brief stored under sw_interface
distributor_IpToInterface(d, command, text) ==
    CASE command = "show version" ->
           [d EXCEPT !.sw_version.d.soft_version = get_version(text)[1],
                     !.sw_version.d.hard_version = get_version(text)[2]]
      [] command = "show running-config" ->
           [d EXCEPT !.sw_config.d.running_config = Str(text)]
      [] command = "show startup-config" ->
           [d EXCEPT !.sw_config.d.start_config = Str(text)]
      [] command = "show access-lists" ->
           [d EXCEPT !.sw_acl = Str(text)]
      [] command = "show interfaces" ->
           [d EXCEPT !.sw_interface = Str(text)]
      [] command = "show ip interface brief" ->
           [d EXCEPT !.sw_interface = Str(text)]
      [] OTHER -> d

\* __distributor with show running-config stored under start_config
distributor_RunningToStart(d, command, text) ==
    CASE command = "show version" ->
           [d EXCEPT !.sw_version.d.soft_version = get_version(text)[1],
                     !.sw_version.d.hard_version = get_version(text)[2]]
      [] command = "show running-config" ->
           [d EXCEPT !.sw_config.d.start_config = Str(text)]
      [] command = "show startup-config" ->
           [d EXCEPT !.sw_config.d.start_config = Str(text)]
      [] command = "show access-lists" ->
           [d EXCEPT !.sw_acl = Str(text)]
      [] command = "show interfaces" ->
           [d EXCEPT !.sw_interface = Str(text)]
      [] command = "show ip interface brief" ->
           [d EXCEPT !.sw_ip_interface = Str(text)]
      [] OTHER -> d

\* __distributor with a default case that stores the text under sw_acl
distributor_DefaultCase(d, command, text) ==
    CASE command = "show version" ->
           [d EXCEPT !.sw_version.d.soft_version = get_version(text)[1],
                     !.sw_version.d.hard_version = get_version(text)[2]]
      [] command = "show running-config" ->
           [d EXCEPT !.sw_config.d.running_config = Str(text)]
      [] command = "show startup-config" ->
           [d EXCEPT !.sw_config.d.start_config = Str(text)]
      [] command = "show access-lists" ->
           [d EXCEPT !.sw_acl = Str(text)]
      [] command = "show interfaces" ->
           [d EXCEPT !.sw_interface = Str(text)]
      [] command = "show ip interface brief" ->
           [d EXCEPT !.sw_ip_interface = Str(text)]
      [] OTHER -> [d EXCEPT !.sw_acl = Str(text)]

\* Service.__distributor: self.data after the call; text is the str received
distributor(d, command, text) ==
    CASE command = "show version" ->
           [d EXCEPT !.sw_version.d.soft_version = get_version(text)[1],
                     !.sw_version.d.hard_version = get_version(text)[2]]
      [] command = "show running-config" ->
           [d EXCEPT !.sw_config.d.running_config = Str(text)]
      [] command = "show startup-config" ->
           [d EXCEPT !.sw_config.d.start_config = Str(text)]
      [] command = "show access-lists" ->
           [d EXCEPT !.sw_acl = Str(text)]
      [] command = "show interfaces" ->
           [d EXCEPT !.sw_interface = Str(text)]
      [] command = "show ip interface brief" ->
           [d EXCEPT !.sw_ip_interface = Str(text)]
      [] OTHER -> d

\* __check_data without the values that are no dict
check_data_NestedOnly(d) ==
    /\ \A key \in DOMAIN d.sw_version.d : Truthy(d.sw_version.d[key])
    /\ \A key \in DOMAIN d.sw_config.d : Truthy(d.sw_config.d[key])

\* __check_data without the values of sw_config
check_data_NoConfig(d) ==
    /\ \A key \in DOMAIN d : d[key].t # "dict" => Truthy(d[key])
    /\ \A key \in DOMAIN d.sw_version.d : Truthy(d.sw_version.d[key])

\* __check_data without the values of sw_version
check_data_NoVersion(d) ==
    /\ \A key \in DOMAIN d : d[key].t # "dict" => Truthy(d[key])
    /\ \A key \in DOMAIN d.sw_config.d : Truthy(d.sw_config.d[key])

\* Service.__check_data: all() of the values that are no dict, then of the values
\* of sw_version, then of the values of sw_config
check_data(d) ==
    /\ \A key \in DOMAIN d : d[key].t # "dict" => Truthy(d[key])
    /\ \A key \in DOMAIN d.sw_version.d : Truthy(d.sw_version.d[key])
    /\ \A key \in DOMAIN d.sw_config.d : Truthy(d.sw_config.d[key])

----------------------------------------------------------------------------
(* The switch: what ConnectHandler, enable and send_command_timing may do.  *)

\* longest text a command other than show version returns
MaxTextLen == 1

\* most tokens of a version banner handed to __get_version on its own
MaxTokens == 6

TextChars == {"a"}

Texts == UNION {[1..n -> TextChars] : n \in 0..MaxTextLen}

\* a token sequence as the text it spells
RECURSIVE Flatten(_)
Flatten(ts) == IF ts = <<>> THEN <<>> ELSE Head(ts) \o Flatten(Tail(ts))

\* the pieces banners are put together from; " " also serves as the character
\* the final . of a pattern matches, "\n" as the one it does not
Tokens == {Cisco, fc2, memory, <<" ">>, <<"\n">>}

BannerTexts == {Flatten(ts) : ts \in UNION {[1..n -> Tokens] : n \in 0..MaxTokens}}

\* the banners the switch of a whole run answers show version with
Banners ==
    {Flatten(ts) : ts \in
        { <<>>,
          \* "Cisco fc2.\nCisco memory."
          <<Cisco, <<" ">>, fc2, <<".">>, <<"\n">>, Cisco, <<" ">>, memory, <<".">>>>,
          \* "Cisco fc2. memory."
          <<Cisco, <<" ">>, fc2, <<".">>, <<" ">>, memory, <<".">>>>,
          \* "Cisco fc2."
          <<Cisco, <<" ">>, fc2, <<".">>>>,
          \* "Cisco memory."
          <<Cisco, <<" ">>, memory, <<".">>>>,
          \* "Cisco fc2\nCisco memory."
          <<Cisco, <<" ">>, fc2, <<"\n">>, Cisco, <<" ">>, memory, <<".">>>>,
          \* "Ciscofc2. memory."
          <<Cisco, fc2, <<".">>, <<" ">>, memory, <<".">>>> }}

\* the except clause of __connection without ConnectionRefusedError
connection_except_NoRefused ==
    {"NetmikoTimeoutException", "NetmikoAuthenticationException", "ReadTimeout",
     "TimeoutError"}

\* the exceptions the except clause of __connection names
connection_except ==
    {"NetmikoTimeoutException", "NetmikoAuthenticationException", "ReadTimeout",
     "TimeoutError", "ConnectionRefusedError"}

\* what ConnectHandler(**options) and session.enable() may raise; ValueError
\* stands for the exceptions the except clause of __connection does not name
ConnectExceptions ==
    {"NetmikoTimeoutException", "NetmikoAuthenticationException", "ReadTimeout",
     "TimeoutError", "ConnectionRefusedError", "ValueError"}

\* a call of __connection: both calls return, or one of them raises
ConnectOutcomes ==
    {[at |-> "return", exc |-> "none"]}
        \cup [at : {"ConnectHandler", "enable"}, exc : ConnectExceptions]

\* what send_command_timing may raise
CommandExceptions == {"ReadTimeout", "OSError"}

Return(text) == [t |-> "return", text |-> text]

Raise(exc) == [t |-> "raise", exc |-> exc]

\* what send_command_timing(command) may do
Replies(command) ==
    {Raise(e) : e \in CommandExceptions}
        \cup {Return(text) : text \in IF command = "show version" THEN Banners ELSE Texts}

Info(msg) == [level |-> "INFO", msg |-> msg]

Error(msg) == [level |-> "ERROR", msg |-> msg]

----------------------------------------------------------------------------
(* The connection settings: Options().dict() overlaid with the command line. *)

PyInt(n) == [t |-> "int", v |-> n]

PyBool(b) == [t |-> "bool", v |-> b]

PyFloat(n) == [t |-> "float", v |-> n]

\* models.py: the fields of Options, in the order of the class
OptionKeys ==
    <<"ip", "host", "username", "password", "secret", "port",
      "device_type", "verbose", "global_delay_factor",
      "global_cmd_verify", "use_keys", "key_file", "pkey", "passphrase",
      "disabled_algorithms", "allow_agent", "ssh_strict",
      "system_host_keys", "alt_host_keys", "alt_key_file",
      "ssh_config_file", "conn_timeout", "auth_timeout",
      "banner_timeout", "blocking_timeout", "timeout",
      "session_timeout", "read_timeout_override", "keepalive",
      "default_enter", "response_return", "serial_settings", "fast_cli",
      "session_log", "session_log_record_writes",
      "session_log_file_mode", "allow_auto_change", "encoding", "sock",
      "auto_connect", "delay_factor_compat">>

\* models.py: Options().dict()
Options ==
    [ip |-> None,
     host |-> None,
     username |-> None,
     password |-> None,
     secret |-> None,
     port |-> PyInt(5010),
     device_type |-> Str(<<"cisco_ios_telnet">>),
     verbose |-> PyBool(FALSE),
     global_delay_factor |-> PyFloat(1),
     global_cmd_verify |-> None,
     use_keys |-> PyBool(FALSE),
     key_file |-> None,
     pkey |-> None,
     passphrase |-> None,
     disabled_algorithms |-> None,
     allow_agent |-> PyBool(FALSE),
     ssh_strict |-> PyBool(FALSE),
     system_host_keys |-> PyBool(FALSE),
     alt_host_keys |-> PyBool(FALSE),
     alt_key_file |-> None,
     ssh_config_file |-> None,
     conn_timeout |-> PyInt(10),
     auth_timeout |-> None,
     banner_timeout |-> PyInt(15),
     blocking_timeout |-> PyInt(20),
     timeout |-> PyInt(100),
     session_timeout |-> PyInt(60),
     read_timeout_override |-> None,
     keepalive |-> PyInt(0),
     default_enter |-> None,
     response_return |-> None,
     serial_settings |-> None,
     fast_cli |-> PyBool(TRUE),
     session_log |-> Str(<<"session.log">>),
     session_log_record_writes |-> PyBool(FALSE),
     session_log_file_mode |-> Str(<<"write">>),
     allow_auto_change |-> PyBool(FALSE),
     encoding |-> Str(<<"utf-8">>),
     sock |-> None,
     auto_connect |-> PyBool(TRUE),
     delay_factor_compat |-> PyBool(FALSE)]

\* the argument names __parse_options adds without "--"
positional == {"host", "port", "device_type"}

IsPositional(key) == key \in positional

\* most values a command line gives without a flag
MaxPositionals == 4

\* the flags the command lines of the model may give
FlagNames == {"username", "secret"}

ArgValues == {Str(<<"a">>), Str(<<"b">>)}

\* a command line: the values given without a flag, in order, and the values
\* given with a flag "--name"
Argvs ==
    [positionals : UNION {[1..n -> ArgValues] : n \in 0..MaxPositionals},
     flags : UNION {[names -> ArgValues] : names \in SUBSET FlagNames}]

\* argparse exits the process: parser.error
SystemExit == [t |-> "SystemExit"]

\* parser.parse_args(): the positional arguments take the values given without a
\* flag, in the order they were added; one missing or one too many is an error
parse_args(a) ==
    LET names == SelectSeq(OptionKeys, IsPositional)
    IN  IF Len(a.positionals) # Len(names) THEN SystemExit
        ELSE Dict([key \in {OptionKeys[i] : i \in 1..Len(OptionKeys)} |->
                     IF IsPositional(key)
                     THEN a.positionals[CHOOSE i \in 1..Len(names) : names[i] = key]
                     ELSE IF key \in DOMAIN a.flags THEN a.flags[key]
                     ELSE None])

\* Service.__parse_options: the dict it returns, or SystemExit
parse_options(options, a) ==
    LET args == parse_args(a)
    IN  IF args = SystemExit THEN SystemExit
        ELSE LET merged == [key \in DOMAIN options |->
                              IF args.d[key] # None THEN args.d[key] ELSE options[key]]
             IN  [key \in {k \in DOMAIN options : merged[k] # None} |-> merged[key]]

\* the command line of the runs of main: host, port and device_type
RunArgv ==
    [positionals |-> <<Str(<<"a">>), Str(<<"b">>), Str(<<"a">>)>>,
     flags |-> [name \in {} |-> None]]

----------------------------------------------------------------------------
(* Service.main, one action per step.                                      *)

\* Service.__init__: the state main starts in
Init ==
    /\ pc = "Idle"
    /\ session = None
    /\ data = AllData
    /\ idx = 1
    /\ connects = <<>>
    /\ sent = <<>>
    /\ opened = 0
    /\ closed = 0
    /\ checks = <<>>
    /\ rendered = <<>>
    /\ persisted = <<>>
    /\ log = <<>>
    /\ argv = RunArgv
    /\ connect_opt = parse_options(Options, RunArgv)

\* main is called: the first log line
Start ==
    /\ pc = "Idle"
    /\ pc' = "Connecting"
    /\ log' = Append(log, Info("Initialized connection to the switch ..."))
    /\ UNCHANGED <<argv, connect_opt, session, data, idx, connects, sent, opened, closed, checks,
                   rendered, persisted>>

\* Service.__connection under outcome o: "True", "False", or "raise" when the
\* exception is none the except clause names and leaves main
connection(o) ==
    IF o.at = "return" THEN "True"
    ELSE IF o.exc \in connection_except THEN "False"
    ELSE "raise"

\* main calling __connection again when it returned False
Connect_Retry ==
    /\ pc = "Connecting"
    /\ \E o \in ConnectOutcomes :
         /\ connects' = Append(connects, o)
         /\ session' = IF o.at = "ConnectHandler" THEN session ELSE Handler
         /\ opened' = IF o.at = "ConnectHandler" THEN opened ELSE opened + 1
         /\ pc' = CASE connection(o) = "True" -> "Collecting"
                    [] connection(o) = "False" -> "Connecting"
                    [] OTHER -> "Crashed"
         /\ log' = CASE connection(o) = "True" ->
                          log \o <<Info("Connection was successful"),
                                   Info("Receiving data from the switch ...")>>
                     [] connection(o) = "False" -> Append(log, Error(o.exc))
                     [] OTHER -> log
    /\ UNCHANGED <<argv, connect_opt, data, idx, closed, sent, checks, rendered, persisted>>

\* main calls __connection and branches on what it returns
Connect ==
    /\ pc = "Connecting"
    /\ \E o \in ConnectOutcomes :
         /\ connects' = Append(connects, o)
         /\ session' = IF o.at = "ConnectHandler" THEN session ELSE Handler
         /\ opened' = IF o.at = "ConnectHandler" THEN opened ELSE opened + 1
         /\ pc' = CASE connection(o) = "True" -> "Collecting"
                    [] connection(o) = "False" -> "Aborted"
                    [] OTHER -> "Crashed"
         /\ log' = CASE connection(o) = "True" ->
                          log \o <<Info("Connection was successful"),
                                   Info("Receiving data from the switch ...")>>
                     [] connection(o) = "False" ->
                          log \o <<Error(o.exc), Info("The program ends its work")>>
                     [] OTHER -> log
    /\ UNCHANGED <<argv, connect_opt, data, idx, closed, sent, checks, rendered, persisted>>

\* the for loop of main going on to the next command after an exception
Iteration_NoAbort(reply) ==
    /\ sent' = Append(sent, [command |-> commands[idx], reply |-> reply])
    /\ IF reply.t = "raise"
       THEN /\ log' = Append(log, Error(reply.exc))
            /\ UNCHANGED data
       ELSE /\ data' = distributor(data, commands[idx], reply.text)
            /\ UNCHANGED log
    /\ idx' = idx + 1
    /\ pc' = IF idx = Len(commands) THEN "Validating" ELSE "Collecting"
    /\ UNCHANGED <<argv, connect_opt, session, connects, opened, closed, checks, rendered, persisted>>

\* the for loop of main returning after an exception without a log line
Iteration_Silent(reply) ==
    /\ sent' = Append(sent, [command |-> commands[idx], reply |-> reply])
    /\ IF reply.t = "raise"
       THEN /\ pc' = "Aborted"
            /\ UNCHANGED <<data, idx, log>>
       ELSE /\ data' = distributor(data, commands[idx], reply.text)
            /\ idx' = idx + 1
            /\ pc' = IF idx = Len(commands) THEN "Validating" ELSE "Collecting"
            /\ UNCHANGED log
    /\ UNCHANGED <<argv, connect_opt, session, connects, opened, closed, checks, rendered, persisted>>

\* the for loop of main followed by the report, the check left out
Iteration_SkipCheck(reply) ==
    /\ sent' = Append(sent, [command |-> commands[idx], reply |-> reply])
    /\ IF reply.t = "raise"
       THEN /\ log' = log \o <<Error(reply.exc), Info("The program ends its work")>>
            /\ pc' = "Aborted"
            /\ UNCHANGED <<data, idx>>
       ELSE /\ data' = distributor(data, commands[idx], reply.text)
            /\ idx' = idx + 1
            /\ pc' = IF idx = Len(commands) THEN "Reporting" ELSE "Collecting"
            /\ UNCHANGED log
    /\ UNCHANGED <<argv, connect_opt, session, connects, opened, closed, checks, rendered, persisted>>

\* one pass of the for loop of main over commands[idx], the switch doing reply
Iteration(reply) ==
    /\ sent' = Append(sent, [command |-> commands[idx], reply |-> reply])
    /\ IF reply.t = "raise"
       THEN /\ log' = log \o <<Error(reply.exc), Info("The program ends its work")>>
            /\ pc' = "Aborted"
            /\ UNCHANGED <<data, idx>>
       ELSE /\ data' = distributor(data, commands[idx], reply.text)
            /\ idx' = idx + 1
            /\ pc' = IF idx = Len(commands) THEN "Validating" ELSE "Collecting"
            /\ UNCHANGED log
    /\ UNCHANGED <<argv, connect_opt, session, connects, opened, closed, checks, rendered, persisted>>

SendCommand ==
    /\ pc = "Collecting"
    /\ \E reply \in Replies(commands[idx]) : Iteration(reply)

\* main going on to the report whatever __check_data returned
CheckData_NoGate ==
    /\ pc = "Validating"
    /\ checks' = Append(checks, check_data(data))
    /\ pc' = "Reporting"
    /\ log' = log \o <<Info("Data received from the switch successfully!"),
                       Info("Outputting received data to the terminal:")>>
    /\ UNCHANGED <<argv, connect_opt, session, data, idx, connects, sent, opened, closed, rendered,
                   persisted>>

\* the check of main followed by the write to the file, the report left out
CheckData_ToPersist ==
    /\ pc = "Validating"
    /\ checks' = Append(checks, check_data(data))
    /\ IF check_data(data)
       THEN /\ pc' = "Persisting"
            /\ log' = log \o <<Info("Data received from the switch successfully!"),
                               Info("Outputting received data to the terminal:")>>
       ELSE /\ pc' = "Aborted"
            /\ log' = Append(log, Info("For some reason, the required data was not received. The program ends its work"))
    /\ UNCHANGED <<argv, connect_opt, session, data, idx, connects, sent, opened, closed, rendered,
                   persisted>>

\* main checks that all data has been received
CheckData ==
    /\ pc = "Validating"
    /\ checks' = Append(checks, check_data(data))
    /\ IF check_data(data)
       THEN /\ pc' = "Reporting"
            /\ log' = log \o <<Info("Data received from the switch successfully!"),
                               Info("Outputting received data to the terminal:")>>
       ELSE /\ pc' = "Aborted"
            /\ log' = Append(log, Info("For some reason, the required data was not received. The program ends its work"))
    /\ UNCHANGED <<argv, connect_opt, session, data, idx, connects, sent, opened, closed, rendered,
                   persisted>>

\* the report of main, taking the texts out of self.data as it prints them
OutputToConsole_Consumes ==
    /\ pc = "Reporting"
    /\ rendered' = Append(rendered, data)
    /\ data' = AllData
    /\ log' = log \o <<Info("report"), Info("Writing received data to a file")>>
    /\ pc' = "Persisting"
    /\ UNCHANGED <<argv, connect_opt, session, idx, connects, sent, opened, closed, checks,
                   persisted>>

\* main prints the report: __output_to_console
OutputToConsole ==
    /\ pc = "Reporting"
    /\ rendered' = Append(rendered, data)
    /\ log' = log \o <<Info("report"), Info("Writing received data to a file")>>
    /\ pc' = "Persisting"
    /\ UNCHANGED <<argv, connect_opt, session, data, idx, connects, sent, opened, closed, checks,
                   persisted>>

\* main appends the record to the file: __write_file
WriteFile ==
    /\ pc = "Persisting"
    /\ persisted' = Append(persisted, data)
    /\ log' = Append(log, Info("The program worked successfully!"))
    /\ pc' = "Done"
    /\ UNCHANGED <<argv, connect_opt, session, data, idx, connects, sent, opened, closed, checks,
                   rendered>>

Next ==
    \/ Start
    \/ Connect
    \/ SendCommand
    \/ CheckData
    \/ OutputToConsole
    \/ WriteFile

Spec == Init /\ [][Next]_vars

\* main runs to its end: no step of it waits for anything but the switch, whose
\* calls return or raise
FairSpec == Spec /\ WF_vars(Next)

----------------------------------------------------------------------------
(* __check_data and __get_version on their own, over every input.          *)

FieldValues == {None} \cup {Str(text) : text \in Texts}

\* every record of the shape of AllData().dict()
Records ==
    {[sw_version |-> Dict([soft_version |-> v[1], hard_version |-> v[2]]),
      sw_config |-> Dict([start_config |-> v[3], running_config |-> v[4]]),
      sw_acl |-> v[5],
      sw_interface |-> v[6],
      sw_ip_interface |-> v[7]] : v \in [1..7 -> FieldValues]}

\* main stands before its call of __check_data, self.data being any record
InitCheckData ==
    /\ pc = "Validating"
    /\ session = Handler
    /\ data \in Records
    /\ idx = Len(commands) + 1
    /\ connects = <<[at |-> "return", exc |-> "none"]>>
    /\ sent = <<>>
    /\ opened = 1
    /\ closed = 0
    /\ checks = <<>>
    /\ rendered = <<>>
    /\ persisted = <<>>
    /\ log = <<>>
    /\ argv = RunArgv
    /\ connect_opt = parse_options(Options, RunArgv)

SpecCheckData == InitCheckData /\ [][CheckData]_vars

\* main stands before the first pass of its for loop
InitGetVersion ==
    /\ pc = "Collecting"
    /\ session = Handler
    /\ data = AllData
    /\ idx = 1
    /\ connects = <<[at |-> "return", exc |-> "none"]>>
    /\ sent = <<>>
    /\ opened = 1
    /\ closed = 0
    /\ checks = <<>>
    /\ rendered = <<>>
    /\ persisted = <<>>
    /\ log = <<>>
    /\ argv = RunArgv
    /\ connect_opt = parse_options(Options, RunArgv)

\* the pass for show version, the switch answering with any banner
SendVersion ==
    /\ pc = "Collecting"
    /\ idx = 1
    /\ \E text \in BannerTexts : Iteration(Return(text))

SpecGetVersion == InitGetVersion /\ [][SendVersion]_vars

\* the process stands in Service.__init__, before its call of __parse_options
InitParseOptions ==
    /\ pc = "Init"
    /\ session = None
    /\ data = AllData
    /\ idx = 1
    /\ connects = <<>>
    /\ sent = <<>>
    /\ opened = 0
    /\ closed = 0
    /\ checks = <<>>
    /\ rendered = <<>>
    /\ persisted = <<>>
    /\ log = <<>>
    /\ argv \in Argvs
    /\ connect_opt = None

\* Service.__init__ sets self.connect_opt, or argparse exits the process
ParseOptions ==
    /\ pc = "Init"
    /\ IF parse_options(Options, argv) = SystemExit
       THEN /\ pc' = "Exit"
            /\ UNCHANGED connect_opt
       ELSE /\ pc' = "Idle"
            /\ connect_opt' = parse_options(Options, argv)
    /\ UNCHANGED <<argv, session, data, idx, connects, sent, opened, closed, checks,
                   rendered, persisted, log>>

SpecParseOptions == InitParseOptions /\ [][ParseOptions]_vars

\* the values a field of self.data holds when __distributor is called: the
\* default of the model or a text stored by an earlier call
StoredValues == {None, Str(<<"b">>)}

StoredRecords ==
    {[sw_version |-> Dict([soft_version |-> v[1], hard_version |-> v[2]]),
      sw_config |-> Dict([start_config |-> v[3], running_config |-> v[4]]),
      sw_acl |-> v[5],
      sw_interface |-> v[6],
      sw_ip_interface |-> v[7]] : v \in [1..7 -> StoredValues]}

\* the texts handed to __distributor: short ones, banners, and texts with white
\* space and line ends around them
DistributorTexts ==
    Texts \cup Banners \cup {<<" ", "a", " ">>, <<"\n", "a", "\n">>, <<" ">>}

\* the strings __distributor is called with as command: the six of main and one
\* that no case of the match statement names
DistributorCommands == {commands[k] : k \in 1..Len(commands)} \cup {"show clock"}

\* the process stands before a call of __distributor, self.data being any record
InitDistributor ==
    /\ pc = "Distributor"
    /\ session = Handler
    /\ data \in StoredRecords
    /\ idx = 1
    /\ connects = <<[at |-> "return", exc |-> "none"]>>
    /\ sent = <<>>
    /\ opened = 1
    /\ closed = 0
    /\ checks = <<>>
    /\ rendered = <<>>
    /\ persisted = <<>>
    /\ log = <<>>
    /\ argv = RunArgv
    /\ connect_opt = parse_options(Options, RunArgv)

\* one call self.__distributor(command=command, data=text)
Distribute ==
    /\ pc = "Distributor"
    /\ \E command \in DistributorCommands, text \in DistributorTexts :
         /\ data' = distributor(data, command, text)
         /\ sent' = <<[command |-> command, reply |-> Return(text)]>>
    /\ pc' = "Distributed"
    /\ UNCHANGED <<argv, connect_opt, session, idx, connects, opened, closed,
                   checks, rendered, persisted, log>>

SpecDistributor == InitDistributor /\ [][Distribute]_vars

----------------------------------------------------------------------------
(* The claims.                                                             *)

\* the command list as the specification declares it
DeclaredOrder ==
    <<"show version", "show startup-config", "show running-config",
      "show access-lists", "show ip interface brief", "show interfaces">>

\* the connection errors of the specification: timeout, authentication failure
\* and refused, as the exceptions that stand for them
ConnectionErrors ==
    {"NetmikoTimeoutException", "ReadTimeout", "TimeoutError",
     "NetmikoAuthenticationException", "ConnectionRefusedError"}

\* the seven data fields of the Result Record
Fields ==
    {"soft_version", "hard_version", "start_config", "running_config", "sw_acl",
     "sw_interface", "sw_ip_interface"}

Get(d, f) ==
    CASE f \in {"soft_version", "hard_version"} -> d.sw_version.d[f]
      [] f \in {"start_config", "running_config"} -> d.sw_config.d[f]
      [] OTHER -> d[f]

\* the command whose output the specification stores in field f
MappedCommand(f) ==
    CASE f \in {"soft_version", "hard_version"} -> "show version"
      [] f = "start_config" -> "show startup-config"
      [] f = "running_config" -> "show running-config"
      [] f = "sw_acl" -> "show access-lists"
      [] f = "sw_interface" -> "show interfaces"
      [] f = "sw_ip_interface" -> "show ip interface brief"

NonEmpty(v) == v # None /\ v # Str(<<>>)

\* every one of the seven fields is present and non-empty
SevenNonEmpty(d) == \A f \in Fields : NonEmpty(Get(d, f))

\* text holds a match of the software pattern / of the hardware pattern
HasSoftware(text) == findall(text, 1, fc2) # <<>>

HasHardware(text) == findall(text, 1, memory) # <<>>

Connected == connects = <<[at |-> "return", exc |-> "none"]>>

ConnectFailed == connects # <<>> /\ connects[1].at # "return"

\* reply k came back without an exception
Returned(k) == sent[k].reply.t = "return"

\* reply k is a non-empty text and, for show version, holds both markers
GoodReply(k) ==
    /\ Returned(k)
    /\ sent[k].reply.text # <<>>
    /\ k = 1 => HasSoftware(sent[k].reply.text) /\ HasHardware(sent[k].reply.text)

\* nothing the switch did so far was a failure, an empty text or a banner
\* without both markers
GoodSoFar ==
    /\ ~ConnectFailed
    /\ \A k \in 1..Len(sent) : GoodReply(k)

\* C1: the commands sent are a prefix of the declared list, in its order, on the
\* one session connect opened; a command that fails is the last one sent and the
\* run is then Aborted.
C1_CommandsInOrderUntilFailure ==
    /\ Len(sent) <= Len(DeclaredOrder)
    /\ \A k \in 1..Len(sent) : sent[k].command = DeclaredOrder[k]
    /\ sent # <<>> => Connected /\ opened = 1 /\ session # None
    /\ \A k \in 1..Len(sent) :
         ~Returned(k) => k = Len(sent) /\ pc = "Aborted"

C1_Witness ==
    /\ Len(sent) = 3
    /\ Returned(1) /\ Returned(2) /\ ~Returned(3)
    /\ pc = "Aborted"

\* C2: a report or a persisted record exists only after __check_data returned
\* true on that very record; a run that is Aborted, or that an exception ended,
\* has none.
C2_ReportOnlyAfterCheck ==
    /\ \A k \in 1..Len(rendered) :
         checks = <<TRUE>> /\ rendered[k] = data /\ SevenNonEmpty(rendered[k])
    /\ \A k \in 1..Len(persisted) :
         checks = <<TRUE>> /\ persisted[k] = data /\ SevenNonEmpty(persisted[k])
    /\ pc \in {"Aborted", "Crashed"} => rendered = <<>> /\ persisted = <<>>

C2_Witness ==
    /\ pc = "Persisting"
    /\ checks = <<TRUE>>
    /\ Len(rendered) = 1

\* C3: when a run has ended, in Done or in Aborted, every session that was opened
\* has been closed.
C3_SessionReleased == pc \in {"Done", "Aborted"} => closed = opened

\* C4: when connect fails with a connection error, at ConnectHandler or at enable,
\* the run is Aborted, no command was sent, nothing was classified, checked,
\* reported or persisted.
C4_ConnectFailureAborts ==
    (ConnectFailed /\ connects[1].exc \in ConnectionErrors) =>
        /\ pc = "Aborted"
        /\ sent = <<>>
        /\ data = AllData
        /\ checks = <<>>
        /\ rendered = <<>>
        /\ persisted = <<>>

C4_Witness ==
    /\ ConnectFailed
    /\ connects[1] = [at |-> "enable", exc |-> "ConnectionRefusedError"]
    /\ pc = "Aborted"

\* C5: a run in which connect succeeds and every command returns a non-empty
\* text, the banner with both markers, reaches Done; in Done the record passed
\* the check and was reported once and persisted once.
C5_GoodRunReachesDone ==
    /\ <>(pc = "Done" \/ ~GoodSoFar)
    /\ [](pc = "Done" =>
            /\ checks = <<TRUE>>
            /\ SevenNonEmpty(data)
            /\ Len(rendered) = 1
            /\ Len(persisted) = 1)

C5_Witness ==
    /\ pc = "Done"
    /\ Connected
    /\ Len(sent) = Len(DeclaredOrder)
    /\ GoodSoFar

\* some command returned the empty text, and all six returned
SixReturnedOneEmpty ==
    /\ Len(sent) = Len(DeclaredOrder)
    /\ \A k \in 1..Len(sent) : Returned(k)
    /\ \E k \in 1..Len(sent) : sent[k].reply.text = <<>>

\* C6: an empty text does not end the loop; once all six commands returned, one
\* of them the empty text, the run is Aborted by the check returning false, and
\* nothing is reported or persisted.
C6_EmptyTextAbortsAtValidating ==
    /\ [](\A k \in 1..Len(sent) :
            (Returned(k) /\ sent[k].reply.text = <<>> /\ k < Len(DeclaredOrder))
                => (Len(sent) > k \/ pc = "Collecting"))
    /\ [](SixReturnedOneEmpty =>
            /\ pc \in {"Validating", "Aborted"}
            /\ pc = "Aborted" => checks = <<FALSE>>
            /\ rendered = <<>>
            /\ persisted = <<>>)
    /\ (SixReturnedOneEmpty ~> (pc = "Aborted" /\ checks = <<FALSE>>))

C6_Witness ==
    /\ SixReturnedOneEmpty
    /\ sent[4].reply.text = <<>>
    /\ \A k \in 1..Len(sent) : k # 4 => GoodReply(k)
    /\ pc = "Aborted"

\* C7: __check_data returns true exactly when each of the seven fields is present
\* and non-empty.
C7_CheckIffSevenNonEmpty == checks # <<>> => checks[1] = SevenNonEmpty(data)

C7_Witness ==
    /\ checks = <<FALSE>>
    /\ Get(data, "running_config") = Str(<<>>)
    /\ \A f \in Fields \ {"running_config"} : NonEmpty(Get(data, f))

\* C8: after show version is classified, both version fields are non-empty when
\* the banner holds both patterns, and both are absent when either is missing.
C8_VersionsPairedOrAbsent ==
    (Len(sent) = 1 /\ Returned(1)) =>
        IF HasSoftware(sent[1].reply.text) /\ HasHardware(sent[1].reply.text)
        THEN NonEmpty(Get(data, "soft_version")) /\ NonEmpty(Get(data, "hard_version"))
        ELSE Get(data, "soft_version") = None /\ Get(data, "hard_version") = None

C8_Witness ==
    /\ Len(sent) = 1
    /\ HasSoftware(sent[1].reply.text)
    /\ ~HasHardware(sent[1].reply.text)
    /\ Get(data, "soft_version") = None

\* C9: every field starts unset; a field changes only from unset, and only in the
\* step that sends the command mapped to it; no command is sent twice.
C9_FieldsWrittenOnce ==
    /\ \A f \in Fields : Get(data, f) = None
    /\ [][\A f \in Fields :
            Get(data', f) # Get(data, f) =>
                /\ Get(data, f) = None
                /\ Len(sent') = Len(sent) + 1
                /\ sent'[Len(sent')].command = MappedCommand(f)]_vars
    /\ [](\A j, k \in 1..Len(sent) : sent[j].command = sent[k].command => j = k)

C9_Witness ==
    /\ pc = "Validating"
    /\ \A f \in Fields : Get(data, f) # None

Logged(entry) == \E k \in 1..Len(log) : log[k] = entry

IncompleteMessage ==
    Info("For some reason, the required data was not received. The program ends its work")

DeclaredPositionals == <<"host", "port", "device_type">>

\* what command line a supplies for field key, None when it supplies nothing
Supplied(a, key) ==
    IF \E i \in 1..Len(DeclaredPositionals) : DeclaredPositionals[i] = key
    THEN LET i == CHOOSE i \in 1..Len(DeclaredPositionals) : DeclaredPositionals[i] = key
         IN  IF i <= Len(a.positionals) THEN a.positionals[i] ELSE None
    ELSE IF key \in DOMAIN a.flags THEN a.flags[key] ELSE None

\* field key after the defaults were overlaid with what a supplies
Overlaid(a, key) == IF Supplied(a, key) # None THEN Supplied(a, key) ELSE Options[key]

\* C12: building the connection settings fails exactly when host or device_type
\* is missing after the overlay, whatever other fields are absent.
C12_MandatoryFieldsDecide ==
    (pc \in {"Idle", "Exit"} /\ Len(argv.positionals) <= Len(DeclaredPositionals)) =>
        (pc = "Exit" <=>
            (Overlaid(argv, "host") = None \/ Overlaid(argv, "device_type") = None))

\* the phase of the specification a position of main lies in: the report and the
\* write to the file are both Reporting; an exception that leaves main ends the
\* run in the phase that raised it, which is Connecting
Phase(p) ==
    CASE p = "Persisting" -> "Reporting"
      [] p = "Crashed" -> "Connecting"
      [] OTHER -> p

PhaseEdges ==
    {<<"Idle", "Connecting">>, <<"Connecting", "Collecting">>,
     <<"Collecting", "Validating">>, <<"Validating", "Reporting">>,
     <<"Reporting", "Done">>, <<"Connecting", "Aborted">>,
     <<"Collecting", "Aborted">>, <<"Validating", "Aborted">>}

\* C13: the phase starts in Idle and changes only along Idle -> Connecting ->
\* Collecting -> Validating -> Reporting -> Done, or to Aborted from Connecting,
\* Collecting or Validating; no step is taken in Done or Aborted; a run that has
\* entered Reporting reaches Done.
C13_PhaseOrder ==
    /\ Phase(pc) = "Idle"
    /\ [][Phase(pc') # Phase(pc) => <<Phase(pc), Phase(pc')>> \in PhaseEdges]_vars
    /\ [][pc \notin {"Done", "Aborted"}]_vars
    /\ (Phase(pc) = "Reporting") ~> (pc = "Done")

C13_Witness ==
    /\ pc = "Done"
    /\ idx = Len(commands) + 1
    /\ checks = <<TRUE>>
    /\ log[Len(log)] = Info("The program worked successfully!")

\* C14: a call of __distributor for one of the five commands that are not show
\* version stores the text it was given, unchanged, in the field mapped to the
\* command and leaves the six other fields as they were; for show version it
\* changes at most the two version fields; for a command outside the list it
\* leaves the whole record as it was.
C14_DistributorFrame ==
    [][pc' = "Distributed" =>
         LET command == sent'[1].command
             text == sent'[1].reply.text
         IN  /\ DOMAIN data' = DOMAIN data
             /\ DOMAIN data'.sw_version.d = DOMAIN data.sw_version.d
             /\ DOMAIN data'.sw_config.d = DOMAIN data.sw_config.d
             /\ \A f \in Fields :
                  IF MappedCommand(f) # command
                  THEN Get(data', f) = Get(data, f)
                  ELSE command # "show version" => Get(data', f) = Str(text)
             /\ command \notin {MappedCommand(f) : f \in Fields} => data' = data]_vars

C14_Witness ==
    /\ pc = "Distributed"
    /\ sent[1].command = "show interfaces"
    /\ sent[1].reply.text = <<" ", "a", " ">>
    /\ data.sw_interface = Str(<<" ", "a", " ">>)
    /\ data.sw_acl = Str(<<"b">>)
    /\ data.sw_ip_interface = None

\* the for loop of main has ended without a return
LoopCompleted == idx = Len(commands) + 1

\* C15: once the command loop has completed no step changes the record: the
\* check, the report and the write to the file leave it as it is, and the record
\* reported and the record persisted are the record the check accepted, which is
\* the record the sixth classification left.
C15_RecordFinal ==
    /\ [][LoopCompleted => data' = data /\ LoopCompleted']_vars
    /\ [][checks' # checks => LoopCompleted /\ data' = data]_vars
    /\ [][rendered' # rendered =>
            checks = <<TRUE>> /\ rendered' = <<data>> /\ data' = data]_vars
    /\ [][persisted' # persisted =>
            rendered = <<data>> /\ persisted' = <<data>> /\ data' = data]_vars

C15_Witness ==
    /\ pc = "Done"
    /\ rendered = <<data>>
    /\ persisted = <<data>>
    /\ data # AllData

\* C16: every run ends: whatever connect and the commands return or raise, a run
\* that can take no further step is in Done or in Aborted, and it made at most
\* one connect and sent at most six commands.
C16_RunsEndDoneOrAborted ==
    /\ pc \in {"Done", "Aborted"} \/ ENABLED Next
    /\ Len(connects) <= 1
    /\ Len(sent) <= Len(commands)

\* all six commands returned a text and the banner lacks a match of the software
\* pattern or of the hardware pattern
SixReturnedBadBanner ==
    /\ Len(sent) = Len(commands)
    /\ \A k \in 1..Len(sent) : Returned(k)
    /\ ~(HasSoftware(sent[1].reply.text) /\ HasHardware(sent[1].reply.text))

\* C17: a run is in Done only if connect succeeded, the six commands were sent
\* once each in the declared order, the five commands that are not show version
\* returned a non-empty text and the banner matched both patterns; a run whose
\* six commands returned but whose banner lacks a pattern reports and persists
\* nothing and ends Aborted by the completeness check.
C17_DoneOnlyIfAllGood ==
    /\ [](pc = "Done" =>
            /\ Connected
            /\ Len(sent) = Len(DeclaredOrder)
            /\ \A k \in 1..Len(sent) :
                 sent[k].command = DeclaredOrder[k] /\ GoodReply(k))
    /\ [](SixReturnedBadBanner =>
            /\ pc \in {"Validating", "Aborted"}
            /\ rendered = <<>>
            /\ persisted = <<>>)
    /\ SixReturnedBadBanner ~> (pc = "Aborted" /\ checks = <<FALSE>>)

C17_Witness ==
    /\ pc = "Aborted"
    /\ checks = <<FALSE>>
    /\ Len(sent) = Len(commands)
    /\ HasSoftware(sent[1].reply.text)
    /\ ~HasHardware(sent[1].reply.text)
    /\ \A k \in 2..Len(sent) : GoodReply(k)

\* C18: in every run the report is rendered at most once and the record is
\* persisted at most once; the write to the file happens only when the report
\* has been rendered, so no run has a persisted record without a report.
C18_RenderThenPersistOnce ==
    /\ [](/\ Len(rendered) <= 1
          /\ Len(persisted) <= 1
          /\ Len(persisted) <= Len(rendered))
    /\ [][persisted' # persisted => Len(rendered) = 1 /\ rendered' = rendered]_vars
    /\ [][rendered' # rendered => rendered = <<>> /\ persisted' = <<>>]_vars

C18_Witness ==
    /\ Len(rendered) = 1
    /\ Len(persisted) = 1
    /\ Logged(Info("Writing received data to a file"))

====
